---- MODULE Spec2Model ----
(***************************************************************************)
(* A model of restub: the Route list and its resolver, the request         *)
(* handler (Handler.proceed) and the Service lifecycle (start, _create,    *)
(* stop, __enter__/__exit__/__call__) of restub/stub.py.                   *)
(*                                                                         *)
(* Threads: one caller thread (the code that owns the Service object),     *)
(* one worker thread per successfully started server (serve_forever), and  *)
(* the environment (clients connecting, another process holding the port,  *)
(* the clock, the garbage collector).                                      *)
(***************************************************************************)
EXTENDS Integers, Sequences, FiniteSets, TLC

(* ----------------------------- bounds ---------------------------------- *)
\* servers (HTTPServer objects) one Service creates in a run
MaxServers == 2
\* connections waiting in the listen backlog of one socket
MaxPending == 1
\* routes in the route list
MaxRoutes == 2

(* ------------------------ regular expressions -------------------------- *)
\* A pattern is a sequence of atoms: a literal character, "." (any
\* character), either of them optionally starred, or the anchor "$".
Lit(c) == [t |-> "lit", c |-> c, star |-> FALSE]
AnyStar == [t |-> "any", c |-> ".", star |-> TRUE]
EndAnchor == [t |-> "end", c |-> "$", star |-> FALSE]

AtomAccepts(a, ch) == a.t = "any" \/ (a.t = "lit" /\ a.c = ch)

\* The matcher with the first clause changed: the whole of s must be
\* consumed (re.fullmatch).
RECURSIVE ReFullMatch(_, _)
ReFullMatch(pat, s) ==
  IF pat = <<>> THEN s = <<>>
  ELSE LET a == Head(pat) IN
       IF a.t = "end" THEN s = <<>> /\ ReFullMatch(Tail(pat), s)
       ELSE IF a.star
            THEN ReFullMatch(Tail(pat), s)
                 \/ (s # <<>> /\ AtomAccepts(a, Head(s)) /\ ReFullMatch(pat, Tail(s)))
            ELSE s # <<>> /\ AtomAccepts(a, Head(s))
                 /\ ReFullMatch(Tail(pat), Tail(s))

\* re.match(pattern, s): the pattern must match starting at the first
\* character of s, and need not consume all of s.
RECURSIVE ReMatch(_, _)
ReMatch(pat, s) ==
  IF pat = <<>> THEN TRUE
  ELSE LET a == Head(pat) IN
       IF a.t = "end" THEN s = <<>> /\ ReMatch(Tail(pat), s)
       ELSE IF a.star
            THEN ReMatch(Tail(pat), s)
                 \/ (s # <<>> /\ AtomAccepts(a, Head(s)) /\ ReMatch(pat, Tail(s)))
            ELSE s # <<>> /\ AtomAccepts(a, Head(s))
                 /\ ReMatch(Tail(pat), Tail(s))

\* r'/a/$', r'/a/.*' and r'/a'
PatAEnd == <<Lit("/"), Lit("a"), Lit("/"), EndAnchor>>
PatAAny == <<Lit("/"), Lit("a"), Lit("/"), AnyStar>>
PatA == <<Lit("/"), Lit("a")>>


(* ------------------------------- routes -------------------------------- *)
\* A response header; a Content-length value is the integer num.
Hdr(name, val, num) == [name |-> name, val |-> val, num |-> num]

\* A constructed Route.  data is the body as a sequence of bytes; the empty
\* sequence stands for "no body" (None and b'' are both falsy at stub.py:93).
MkRoute(method, path, data, headers, status) ==
  [method |-> method, path |-> path, data |-> data, headers |-> headers,
   status |-> status]

RouteGetAEnd ==
  MkRoute("GET", PatAEnd, <<104, 105>>,
          <<Hdr("Content-type", "text/plain", 0), Hdr("Content-length", "", 2)>>,
          200)
RouteGetAAny ==
  MkRoute("GET", PatAAny, <<123, 125>>,
          <<Hdr("Content-type", "application/json", 0),
            Hdr("Content-length", "", 2), Hdr("X-Id", "7", 0)>>,
          200)
RoutePostA == MkRoute("POST", PatA, <<>>, <<Hdr("X-Id", "9", 0)>>, 201)

\* Service.resolve: the index of the first route of the list with this
\* method whose pattern matches the path, 0 for None.
RECURSIVE ResolveFrom(_, _, _, _)
ResolveFrom(rs, k, method, path) ==
  IF k > Len(rs) THEN 0
  ELSE IF rs[k].method = method /\ ReMatch(rs[k].path, path) THEN k
  ELSE ResolveFrom(rs, k + 1, method, path)

Resolve(rs, method, path) == ResolveFrom(rs, 1, method, path)

(* --------------------------- configuration ----------------------------- *)
\* port=8081 is the default of Service.__init__
DefaultPort == 8081
\* The options a Service is constructed with.  float(delay) takes any
\* number, a negative one too; secure stands for secure=True with key and
\* crt naming existing files.
Options ==
  {[trace |-> FALSE, delay |-> 0, secure |-> FALSE],
   [trace |-> TRUE, delay |-> 1, secure |-> FALSE],
   [trace |-> FALSE, delay |-> 1, secure |-> TRUE],
   [trace |-> TRUE, delay |-> -1, secure |-> FALSE],
   [trace |-> TRUE, delay |-> 0, secure |-> TRUE]}
\* _create(attempts=3)
Attempts == 3
\* the requests clients send: GET /a/, GET /a/b, POST /a/b, GET /
Requests ==
  {[method |-> "GET", path |-> <<"/", "a", "/">>],
   [method |-> "GET", path |-> <<"/", "a", "/", "b">>],
   [method |-> "POST", path |-> <<"/", "a", "/", "b">>],
   [method |-> "GET", path |-> <<"/">>]}
\* What the request's header section looks like: no header at all, ordinary
\* headers, or a Content-Length that is not a number.
RequestHeaderKinds == {"none", "plain", "badlen"}

(* ------------------------ events of one dispatch ----------------------- *)
Ev(kind, name, val, num, data) ==
  [kind |-> kind, name |-> name, val |-> val, num |-> num, data |-> data]
EvStatus(code) == Ev("status", "", "", code, <<>>)
EvHeader(h) == Ev("header", h.name, h.val, h.num, <<>>)
EvLibHeader(name) == Ev("libheader", name, "", 0, <<>>)
EvEnd == Ev("end", "", "", 0, <<>>)
EvSleep(secs) == Ev("sleep", "", "", secs, <<>>)
EvBody(data) == Ev("body", "", "", 0, data)

\* The HTML page http.server writes for an error ("<!DOCTYPE HTML>...").
ErrorPage == <<60, 33, 68>>

\* BaseHTTPRequestHandler.send_response: the status line and the two
\* standard headers (the ones print_info lists first, stub.py:100-103).
SendResponse(code) == <<EvStatus(code), EvLibHeader("Server"), EvLibHeader("Date")>>

\* BaseHTTPRequestHandler.send_error: a complete error response, with its
\* own headers, the end of the header section and the explanatory page.
SendError(code) ==
  SendResponse(code) \o <<EvLibHeader("Connection")>>
  \o (IF code >= 200 /\ code \notin {204, 205, 304}
      THEN <<EvLibHeader("Content-Type"), EvLibHeader("Content-Length"),
             EvEnd, EvBody(ErrorPage)>>
      ELSE <<EvEnd>>)

RECURSIVE SendHeaders(_)
\* for header in route.headers: self.send_header(header, route.headers[header])
SendHeaders(hs) ==
  IF hs = <<>> THEN <<>> ELSE <<EvHeader(Head(hs))>> \o SendHeaders(Tail(hs))

\* proceed(), unmatched: send_error(404); end_headers()
NotFoundOut == SendError(404) \o <<EvEnd>>

\* proceed(), matched, up to the sleep
HeadOut(r) == SendResponse(r.status) \o SendHeaders(r.headers) \o <<EvEnd>>

\* The same with the body written first and the delay after it.
TailOutBodyFirst(r, slept) ==
  (IF r.data # <<>> THEN <<EvBody(r.data)>> ELSE <<>>) \o <<EvSleep(slept)>>

\* proceed(), matched, from the sleep on: the delay has passed, then the body
TailOut(r, slept) ==
  <<EvSleep(slept)>> \o (IF r.data # <<>> THEN <<EvBody(r.data)>> ELSE <<>>)

\* the sleep of proceed() is over once the whole delay has elapsed
Awake(s) == s.remaining = 0

\* Service.log: a record is written only when tracing
LogLines(tr, lines) == IF tr THEN lines ELSE <<>>

\* print_info / get_payload raise on these requests: max() of no header,
\* int() of a Content-Length that is not a number
PrintInfoRaises(method, hk) ==
  \/ hk = "none"
  \/ hk = "badlen" /\ method \in {"POST", "PUT", "DELETE"}

(* ------------------------------- servers ------------------------------- *)
NoReq == [method |-> "", path |-> <<>>]

\* An HTTPServer object with its listening socket and, when threaded, the
\* worker that runs serve_forever on it.
NewServer(p, threaded) ==
  [port |-> p, sock |-> "open", thread |-> threaded, shutdown |-> FALSE,
   wpc |-> IF threaded THEN "poll" ELSE "none",
   req |-> NoReq, route |-> 0, out |-> <<>>, logs |-> <<>>,
   remaining |-> 0, elapsed |-> 0, backlog |-> <<>>]

\* server_close(): the listening socket is closed, waiting connections die
CloseSocket(svs, i) ==
  [svs EXCEPT ![i].sock = "closed", ![i].backlog = <<>>]

\* stop() without its test of self._server: None has no server_close.
StopCallUnguarded(svs, cur, tr) ==
  IF cur # 0
  THEN [servers |-> CloseSocket(svs, cur), err |-> "none",
        lines |-> LogLines(tr, <<"stopped">>)]
  ELSE [servers |-> svs, err |-> "AttributeError", lines |-> <<>>]

\* stop(): closes the socket of self._server and logs, if there is a server;
\* otherwise it does nothing.  The result: the servers, the error raised and
\* the lines logged.
StopCall(svs, cur, tr) ==
  IF cur # 0
  THEN [servers |-> CloseSocket(svs, cur), err |-> "none",
        lines |-> LogLines(tr, <<"stopped">>)]
  ELSE [servers |-> svs, err |-> "none", lines |-> <<>>]

\* An __exit__ that stops only when the block raised nothing.
ExitCallUnlessRaised(svs, cur, tr, kind) ==
  IF kind = "raise" THEN [servers |-> svs, err |-> "none", lines |-> <<>>]
  ELSE StopCall(svs, cur, tr)

\* __exit__(*args): self.stop(), whatever way the block was left
ExitCall(svs, cur, tr, kind) == StopCall(svs, cur, tr)

(* ------------------------------- values -------------------------------- *)
\* A Python value as the constructors test it: its type and its content.
\* The content of a str is its characters, one string per character; the
\* characters U+0000, U+00E9 and U+017F are written "NUL", "EACUTE" and
\* "LONGS".
NoneV == [t |-> "none", v |-> <<>>]
StrV(cs) == [t |-> "str", v |-> cs]
BytesV(bs) == [t |-> "bytes", v |-> bs]
IntV(n) == [t |-> "int", v |-> n]
ListV(xs) == [t |-> "list", v |-> xs]
DictV(ps) == [t |-> "dict", v |-> ps]
BoolV(b) == [t |-> "bool", v |-> b]

\* bool(x), the test of "if data:" and "if headers:"
Truthy(x) ==
  IF x.t = "none" THEN FALSE
  ELSE IF x.t = "bool" THEN x.v
  ELSE IF x.t = "int" THEN x.v # 0
  ELSE x.v # <<>>

\* str.encode(): the UTF-8 bytes of one character
Utf8(c) ==
  CASE c = "NUL" -> <<0>>
    [] c = " " -> <<32>>   [] c = "!" -> <<33>>   [] c = "\"" -> <<34>>
    [] c = "," -> <<44>>   [] c = "." -> <<46>>   [] c = "/" -> <<47>>
    [] c = "0" -> <<48>>   [] c = "1" -> <<49>>   [] c = "9" -> <<57>>
    [] c = ":" -> <<58>>   [] c = "<" -> <<60>>   [] c = ">" -> <<62>>
    [] c = "C" -> <<67>>   [] c = "D" -> <<68>>   [] c = "E" -> <<69>>
    [] c = "O" -> <<79>>   [] c = "P" -> <<80>>   [] c = "T" -> <<84>>
    [] c = "Y" -> <<89>>   [] c = "\\" -> <<92>>  [] c = "a" -> <<97>>
    [] c = "e" -> <<101>>  [] c = "h" -> <<104>>  [] c = "i" -> <<105>>
    [] c = "j" -> <<106>>  [] c = "k" -> <<107>>  [] c = "l" -> <<108>>
    [] c = "m" -> <<109>>  [] c = "q" -> <<113>>  [] c = "s" -> <<115>>
    [] c = "t" -> <<116>>  [] c = "u" -> <<117>>  [] c = "v" -> <<118>>
    [] c = "{" -> <<123>>  [] c = "}" -> <<125>>
    [] c = "EACUTE" -> <<195, 169>>

RECURSIVE Encode(_)
\* obj.encode()
Encode(cs) == IF cs = <<>> THEN <<>> ELSE Utf8(Head(cs)) \o Encode(Tail(cs))

\* json.dumps of one character of a string: non-ASCII is escaped
JsonChar(c) ==
  IF c = "EACUTE" THEN <<"\\", "u", "0", "0", "e", "9">> ELSE <<c>>

\* json.dumps(obj) for a dict of one-character keys and values:
\* {"k": "v", ...} with ", " between the items
RECURSIVE JsonItems(_)
JsonItems(ps) ==
  IF ps = <<>> THEN <<>>
  ELSE <<"\"">> \o JsonChar(Head(ps)[1]) \o <<"\"", ":", " ", "\"">>
       \o JsonChar(Head(ps)[2]) \o <<"\"">>
       \o (IF Tail(ps) = <<>> THEN <<>> ELSE <<",", " ">> \o JsonItems(Tail(ps)))

JsonDumps(ps) == <<"{">> \o JsonItems(ps) \o <<"}">>

\* the texts the payloads are drawn from
TextHi == <<"h", "i">>
TextJson == <<"{", "}">>
TextOne == <<"1">>
TextHtmlXml == <<"<", "h", "t", "m", "l", "/", ">">>
TextXml == <<"<", "a", "/", ">">>
TextAccent == <<"h", "EACUTE">>
TextDoctype ==
  <<"<", "!", "D", "O", "C", "T", "Y", "P", "E", " ", "h", "t", "m", "l", ">">>
TextNul == <<"a", "NUL">>
TextJsPath == <<"/", "a", ".", "j", "s">>
TextQPath == <<"/", "a", ".", "q">>
Texts ==
  {TextHi, TextJson, TextOne, TextHtmlXml, TextXml, TextAccent, TextDoctype,
   TextNul, TextJsPath, TextQPath, <<>>}

\* is_json: json.loads(data) raises no ValueError; of Texts it takes these
IsJson(cs) == cs \in {TextJson, TextOne}

StartsWith(cs, p) == Len(cs) >= Len(p) /\ SubSeq(cs, 1, Len(p)) = p

\* is_html: data.startswith('<!DOCTYPE html') or data.startswith('<html')
IsHtml(cs) ==
  \/ StartsWith(cs, <<"<", "!", "D", "O", "C", "T", "Y", "P", "E", " ",
                     "h", "t", "m", "l">>)
  \/ StartsWith(cs, <<"<", "h", "t", "m", "l">>)

\* is_xml: parseString(data) raises no ExpatError; of Texts it takes these
IsXml(cs) == cs \in {TextXml, TextHtmlXml}

\* The file system: the readable files, by path, with their bytes.
NoFiles == <<>>
SomeFiles ==
  <<[path |-> TextJsPath, bytes |-> <<123, 125>>],
    [path |-> TextQPath, bytes |-> <<60, 97, 47, 62>>],
    [path |-> TextOne, bytes |-> <<104, 105>>]>>
FileSystems == {NoFiles, SomeFiles}

IsFile(fs, cs) == \E k \in 1..Len(fs) : fs[k].path = cs
FileBytes(fs, cs) == fs[CHOOSE k \in 1..Len(fs) : fs[k].path = cs].bytes

\* open(obj, 'rb') on a text with a null character raises ValueError
\* ("embedded null byte"), which is no OSError.
OpenRaisesValueError(cs) == \E k \in 1..Len(cs) : cs[k] = "NUL"

\* Path(obj).suffix: the name is what follows the last "/"; the suffix goes
\* from the last "." of the name on, unless that dot starts or ends the name.
LastIndex(cs, c) ==
  IF \E k \in 1..Len(cs) : cs[k] = c
  THEN CHOOSE k \in 1..Len(cs) :
         cs[k] = c /\ \A j \in (k + 1)..Len(cs) : cs[j] # c
  ELSE 0
Suffix(cs) ==
  LET name == SubSeq(cs, LastIndex(cs, "/") + 1, Len(cs))
      dot == LastIndex(name, ".")
  IN IF 1 < dot /\ dot < Len(name) THEN SubSeq(name, dot, Len(name)) ELSE <<>>

\* CTYPES.get(suffix, 'text/plain'), with these rows of the table:
\* .js, .sh, .htm, .json, .xml, .txt, .jpg
CTypeOf(suffix) ==
  CASE suffix = <<".", "j", "s">> -> "application/javascript"
    [] suffix = <<".", "s", "h">> -> "application/x-sh"
    [] suffix = <<".", "h", "t", "m">> -> "text/html"
    [] suffix = <<".", "j", "s", "o", "n">> -> "application/json"
    [] suffix = <<".", "x", "m", "l">> -> "application/xml"
    [] suffix = <<".", "t", "x", "t">> -> "text/plain"
    [] suffix = <<".", "j", "p", "g">> -> "image/jpeg"
    [] OTHER -> "text/plain"

\* the content sniffing of parse_response, in its order
Sniff(cs) ==
  IF IsJson(cs) THEN "application/json"
  ELSE IF IsHtml(cs) THEN "text/html"
  ELSE IF IsXml(cs) THEN "application/xml"
  ELSE "text/plain"

Parsed(err, data, ctype) == [err |-> err, data |-> data, ctype |-> ctype]

\* parse_response(obj), with the files fs: the bytes and the content type,
\* or the exception raised
parse_response(obj, fs) ==
  IF obj.t = "dict"
  THEN Parsed("none", Encode(JsonDumps(obj.v)), "application/json")
  ELSE IF obj.t = "str"
  THEN IF OpenRaisesValueError(obj.v) THEN Parsed("ValueError", <<>>, "")
       ELSE IF IsFile(fs, obj.v)
       THEN Parsed("none", FileBytes(fs, obj.v), CTypeOf(Suffix(obj.v)))
       ELSE Parsed("none", Encode(obj.v), Sniff(obj.v))
  ELSE Parsed("TypeError", <<>>, "")

(* -------------------------- Route construction ------------------------- *)
\* str.upper() of one character
UpperChar(c) ==
  CASE c = "a" -> "A"  [] c = "c" -> "C"  [] c = "d" -> "D"  [] c = "e" -> "E"
    [] c = "g" -> "G"  [] c = "h" -> "H"  [] c = "l" -> "L"  [] c = "o" -> "O"
    [] c = "p" -> "P"  [] c = "s" -> "S"  [] c = "t" -> "T"  [] c = "u" -> "U"
    [] c = "LONGS" -> "S"
    [] OTHER -> c

Upper(cs) == [k \in 1..Len(cs) |-> UpperChar(cs[k])]

RECURSIVE Join(_)
\* the characters as one string
Join(cs) == IF cs = <<>> THEN "" ELSE Head(cs) \o Join(Tail(cs))

\* Method.ALLOWED
Allowed == {"GET", "POST", "PUT", "DELETE"}

\* What one argument of a constructor comes to: the error it raises, or the
\* value stored.
Raised(err) == [err |-> err, val |-> <<>>]
Stored(val) == [err |-> "none", val |-> val]

\* method.upper() in Method.ALLOWED: upper() exists on str and on bytes (any
\* other type has no such attribute: TypeError), and only a str can be equal
\* to a member of ALLOWED.
MethodOf(method) ==
  IF method.t \notin {"str", "bytes"} THEN Raised("TypeError")
  ELSE IF method.t = "str" /\ Join(Upper(method.v)) \in Allowed
  THEN Stored(Join(Upper(method.v)))
  ELSE Raised("ValueError")

\* path.strip() is empty: the path has only white space
Blank(pat) == \A k \in 1..Len(pat) : pat[k] = Lit(" ")

\* if path.strip(): self.__path = path
PathOf(path) ==
  IF path.t \notin {"str", "bytes"} THEN Raised("TypeError")
  ELSE IF ~Blank(path.v) THEN Stored(path.v)
  ELSE Raised("ValueError")

\* headers that carry the length of the payload given, not of the body
AutoHeadersOfArgument(obj, p) ==
  <<Hdr("Content-type", p.ctype, 0), Hdr("Content-length", "", Len(obj.v))>>

\* self.__headers['Content-type'] = ctype
\* self.__headers['Content-length'] = len(self.data)
AutoHeaders(obj, p) ==
  <<Hdr("Content-type", p.ctype, 0), Hdr("Content-length", "", Len(p.data))>>

HasHeader(hs, name) == \E k \in 1..Len(hs) : hs[k].name = name

\* an update that leaves the keys it finds as they are (dict.setdefault)
RECURSIVE UpdateMissing(_, _)
UpdateMissing(hs, new) ==
  IF new = <<>> THEN hs
  ELSE LET h == Head(new) IN
       UpdateMissing(IF HasHeader(hs, h.name) THEN hs ELSE Append(hs, h),
                     Tail(new))

\* dict.update: a key that is there keeps its place and takes the new
\* value, a new key goes to the end
RECURSIVE Update(_, _)
Update(hs, new) ==
  IF new = <<>> THEN hs
  ELSE LET h == Head(new) IN
       Update(IF HasHeader(hs, h.name)
              THEN [k \in 1..Len(hs) |-> IF hs[k].name = h.name THEN h ELSE hs[k]]
              ELSE Append(hs, h),
              Tail(new))

\* the value of one decimal digit
Digit(c) ==
  CASE c = "0" -> 0 [] c = "1" -> 1 [] c = "2" -> 2 [] c = "3" -> 3
    [] c = "4" -> 4 [] c = "5" -> 5 [] c = "6" -> 6 [] c = "7" -> 7
    [] c = "8" -> 8 [] c = "9" -> 9 [] OTHER -> -1

RECURSIVE Decimal(_, _)
Decimal(cs, acc) ==
  IF cs = <<>> THEN acc ELSE Decimal(Tail(cs), 10 * acc + Digit(Head(cs)))

\* int(x): a number as it is, a text of decimal digits by its value; any
\* other text raises ValueError, any other type TypeError
IntOf(x) ==
  IF x.t = "int" THEN Stored(x.v)
  ELSE IF x.t = "str"
  THEN IF x.v # <<>> /\ \A k \in 1..Len(x.v) : Digit(x.v[k]) >= 0
       THEN Stored(Decimal(x.v, 0))
       ELSE Raised("ValueError")
  ELSE Raised("TypeError")

\* The outcome of a constructor: the exception and the argument that raised
\* it, or the object.
Failed(err, at) == [err |-> err, at |-> at, obj |-> <<>>]
Built(obj) == [err |-> "none", at |-> "", obj |-> obj]

\* Route.__init__(method, path, data, headers, status), with the files fs
Route(method, path, data, headers, status, fs) ==
  LET m == MethodOf(method)
      p == PathOf(path)
      d == IF Truthy(data) THEN parse_response(data, fs)
           ELSE Parsed("none", <<>>, "")
      auto == IF Truthy(data) /\ d.err = "none" THEN AutoHeaders(data, d)
              ELSE <<>>
      s == IntOf(status)
  IN IF m.err # "none" THEN Failed(m.err, "method")
     ELSE IF p.err # "none" THEN Failed(p.err, "path")
     ELSE IF d.err # "none" THEN Failed(d.err, "data")
     ELSE IF Truthy(headers) /\ headers.t # "dict" THEN Failed("TypeError", "headers")
     ELSE IF s.err # "none" THEN Failed("TypeError", "status")
     ELSE Built(MkRoute(m.val, p.val, d.data,
                        IF Truthy(headers) THEN Update(auto, headers.v) ELSE auto,
                        s.val))

\* Route.cast(route): a non-empty list or tuple of method, path and up to
\* three options; fewer than two elements raise ValueError at the unpacking
Cast(route, fs) ==
  IF ~(Truthy(route) /\ route.t = "list") THEN Failed("TypeError", "route")
  ELSE IF Len(route.v) < 2 THEN Failed("ValueError", "route")
  ELSE LET opts == SubSeq(route.v, 3, Len(route.v)) IN
       Route(route.v[1], route.v[2],
             IF Len(opts) > 0 THEN opts[1] ELSE NoneV,
             IF Len(opts) > 1 THEN opts[2] ELSE NoneV,
             IF Len(opts) > 2 THEN opts[3] ELSE IntV(200),
             fs)

(* ------------------------- Service construction ------------------------ *)
\* Path(p).exists(): Path('') is the current directory, which exists
Exists(fs, cs) == cs = <<>> \/ IsFile(fs, cs)

\* __set_key / __set_crt: the path if it exists, else False; Path() of what
\* is no str raises TypeError
PathOption(x, fs) ==
  IF x.t # "str" THEN Raised("TypeError")
  ELSE IF Exists(fs, x.v) THEN Stored(x) ELSE Stored(BoolV(FALSE))

\* a setter that asks for the certificate only
SecureChecksCrtOnly(secure, key, crt) ==
  IF Truthy(secure) /\ ~Truthy(crt) THEN Raised("ValueError")
  ELSE Stored(secure)

\* __set_secure: if secure, "if not self.crt: raise", "if not self.key: raise"
SecureOption(secure, key, crt) ==
  IF Truthy(secure) /\ ~Truthy(crt) THEN Raised("ValueError")
  ELSE IF Truthy(secure) /\ ~Truthy(key) THEN Raised("ValueError")
  ELSE Stored(secure)

\* float(x)
FloatOf(x) ==
  IF x.t = "int" THEN Stored(x.v)
  ELSE IF x.t = "bool" THEN Stored(IF x.v THEN 1 ELSE 0)
  ELSE IF x.t = "str"
  THEN IF x.v # <<>> /\ \A k \in 1..Len(x.v) : Digit(x.v[k]) >= 0
       THEN Stored(Decimal(x.v, 0))
       ELSE Raised("ValueError")
  ELSE Raised("TypeError")

RECURSIVE CastAll(_, _)
\* [Route.cast(route) for route in routes]: the first failure ends it
CastAll(lits, fs) ==
  IF lits = <<>> THEN Built(<<>>)
  ELSE LET r == Cast(Head(lits), fs) IN
       IF r.err # "none" THEN r
       ELSE LET rest == CastAll(Tail(lits), fs) IN
            IF rest.err # "none" THEN rest ELSE Built(<<r.obj>> \o rest.obj)

\* the routes argument of Service.__init__: nothing, a list of route
\* literals, or one route literal
RoutesOf(routes, fs) ==
  IF ~Truthy(routes) THEN Built(<<>>)
  ELSE IF routes.t # "list" THEN Failed("TypeError", "routes")
  ELSE IF \A k \in 1..Len(routes.v) : routes.v[k].t = "list"
  THEN CastAll(routes.v, fs)
  ELSE LET r == Cast(routes, fs) IN
       IF r.err # "none" THEN r ELSE Built(<<r.obj>>)

\* Service.__init__(routes, port, trace=, delay=, crt=, key=, secure=)
Service(routes, prt, trc, dly, crt, key, sec, fs) ==
  LET rs == RoutesOf(routes, fs)
      p == IntOf(prt)
      d == FloatOf(dly)
      c == PathOption(crt, fs)
      k == PathOption(key, fs)
      s == SecureOption(sec, k.val, c.val)
  IN IF rs.err # "none" THEN rs
     ELSE IF p.err # "none" THEN Failed("TypeError", "port")
     ELSE IF d.err # "none" THEN Failed("TypeError", "delay")
     ELSE IF c.err # "none" THEN Failed("TypeError", "crt")
     ELSE IF k.err # "none" THEN Failed("TypeError", "key")
     ELSE IF s.err # "none" THEN Failed(s.err, "secure")
     ELSE Built([routes |-> rs.obj, port |-> p.val, trace |-> Truthy(trc),
                 delay |-> d.val, crt |-> c.val, key |-> k.val,
                 secure |-> s.val, server |-> 0])

(* ------------------------ the constructor calls ------------------------ *)
MethodArgs ==
  {StrV(<<"G", "E", "T">>), StrV(<<"G", "e", "T">>), StrV(<<"p", "o", "s", "t">>),
   StrV(<<"p", "u", "t">>), StrV(<<"d", "e", "l", "e", "t", "e">>),
   StrV(<<"p", "o", "LONGS", "t">>), StrV(<<"P", "A", "T", "C", "H">>),
   StrV(<<>>), BytesV(<<"g", "e", "t">>), NoneV, IntV(1)}
PathArgs == {StrV(PatAEnd), StrV(<<Lit(" ")>>), NoneV}
DataArgs ==
  {StrV(cs) : cs \in Texts}
  \cup {DictV(<<>>), DictV(<<<<"k", "v">>>>), DictV(<<<<"k", "EACUTE">>>>),
        NoneV, IntV(0), IntV(1), ListV(<<>>), BytesV(<<104>>)}
HeaderArgs ==
  {NoneV, DictV(<<>>), DictV(<<Hdr("X-Id", "7", 0)>>),
   DictV(<<Hdr("Content-type", "text/html", 0)>>),
   DictV(<<Hdr("Content-length", "", 99)>>),
   DictV(<<Hdr("Content-Type", "text/html", 0), Hdr("Content-type", "text/css", 0)>>),
   IntV(3)}
StatusArgs == {IntV(200), StrV(<<"2", "0", "1">>), NoneV}

RouteCalls ==
  [fn : {"Route"}, method : MethodArgs, path : PathArgs, data : DataArgs,
   headers : HeaderArgs, status : StatusArgs, fs : FileSystems]

ParseCalls == [fn : {"parse_response"}, obj : DataArgs, fs : FileSystems]

KeyPath == <<"/", "k">>
CrtPath == <<"/", "c">>
\* a file system with the key and the certificate, and one with the key only
TlsFiles ==
  <<[path |-> KeyPath, bytes |-> <<45>>], [path |-> CrtPath, bytes |-> <<45>>]>>
KeyFileOnly == <<[path |-> KeyPath, bytes |-> <<45>>]>>

RouteLiterals ==
  {NoneV,
   ListV(<<StrV(<<"G", "E", "T">>), StrV(PatAEnd)>>),
   ListV(<<ListV(<<StrV(<<"G", "E", "T">>), StrV(PatAEnd), StrV(TextHi)>>),
           ListV(<<StrV(<<"G", "E", "T">>), StrV(PatAAny), StrV(TextJson),
                   DictV(<<Hdr("X-Id", "7", 0)>>)>>)>>),
   ListV(<<ListV(<<StrV(<<"G", "E", "T">>)>>)>>)}

ServiceCalls ==
  [fn : {"Service"}, routes : RouteLiterals,
   port : {IntV(DefaultPort), NoneV},
   trace : {BoolV(FALSE), BoolV(TRUE)},
   delay : {IntV(0), IntV(-1), NoneV},
   crt : {StrV(<<>>), StrV(CrtPath), NoneV},
   key : {StrV(<<>>), StrV(KeyPath), NoneV},
   secure : {BoolV(FALSE), BoolV(TRUE)},
   fs : {NoFiles, KeyFileOnly, TlsFiles}]

\* the arguments Route.cast is called with: sequences of no, one, two, ...,
\* six elements, and values that are no list or tuple
CastArgs ==
  LET get == StrV(<<"G", "E", "T">>)
      pat == StrV(PatAEnd)
      hdr == DictV(<<Hdr("X-Id", "7", 0)>>)
  IN {ListV(<<>>), ListV(<<get>>), NoneV, IntV(0), StrV(<<>>), StrV(<<"G", "E">>),
      BytesV(<<103, 101>>), DictV(<<<<"k", "v">>>>),
      ListV(<<get, pat>>),
      ListV(<<StrV(<<"g", "e", "t">>), pat, StrV(TextHi)>>),
      ListV(<<get, pat, StrV(TextHi), hdr>>),
      ListV(<<get, pat, StrV(TextHi), hdr, StrV(<<"2", "0", "1">>)>>),
      ListV(<<get, pat, NoneV, NoneV, IntV(201), StrV(TextHi)>>),
      ListV(<<StrV(<<"P", "A", "T", "C", "H">>), pat>>),
      ListV(<<NoneV, pat>>),
      ListV(<<get, pat, IntV(1)>>)}

CastCalls == [fn : {"cast"}, route : CastArgs, fs : FileSystems]

NoCall == [fn |-> "none"]
NotMade == [err |-> "pending", at |-> "", obj |-> <<>>]

(* -------------------------------- state -------------------------------- *)
VARIABLES
  routes,     \* self._routes, the ordered route list
  port,       \* self.port
  trace,      \* self.trace
  delay,      \* self.delay
  secure,     \* self.secure (key and crt were validated with it)
  server,     \* self._server: an index into servers, 0 for None
  servers,    \* every HTTPServer this Service created, in creation order
  extBusy,    \* another process holds the port
  cpc,        \* where the caller thread is
  op,         \* the call the caller thread is in
  attempts,   \* the local variable attempts of _create
  nbind,      \* bind attempts made by the current start()
  lastBind,   \* the outcome of the latest bind attempt of the current start()
  backoffs,   \* sleep(0.5) calls made by the current start()
  err,        \* the exception the current call raised
  callLog,    \* the lines the current call logged
  exitKind,   \* how the enclosed unit of work ended
  note,       \* what the current stop() found: "never", "closed" or "open"
  args,       \* the constructor call under way: the function and its arguments
  made        \* what that call came to: the exception raised, or the object

vars == <<routes, port, trace, delay, secure, server, servers, extBusy, cpc,
          op, attempts, nbind, lastBind, backoffs, err, callLog, exitKind,
          note, args, made>>

config == <<port, trace, delay, secure>>
callerLocals == <<attempts, nbind, lastBind, backoffs, err, callLog, exitKind,
                  note>>
ctor == <<args, made>>

\* Service.__init__: no server, the routes given, the validated options
InitRouteLists == {<<>>, <<RouteGetAEnd, RouteGetAAny>>}

Init ==
  /\ routes \in InitRouteLists
  /\ port = DefaultPort
  /\ \E o \in Options : trace = o.trace /\ delay = o.delay /\ secure = o.secure
  /\ server = 0
  /\ servers = <<>>
  /\ extBusy = FALSE
  /\ cpc = "idle"
  /\ op = "none"
  /\ attempts = 0
  /\ nbind = 0
  /\ lastBind = "none"
  /\ backoffs = 0
  /\ err = "none"
  /\ callLog = <<>>
  /\ exitKind = "none"
  /\ note = "none"
  /\ args = NoCall
  /\ made = NotMade

\* the address (localhost, port) is taken: by another process, or by a
\* listening socket of this Service that is still open
PortBusy(p) ==
  \/ extBusy
  \/ \E i \in DOMAIN servers : servers[i].sock = "open" /\ servers[i].port = p

(* ------------------------- the caller thread --------------------------- *)
\* a start() that does not look at the route list
HasRoutesUnchecked(rs) == TRUE

\* start(): if self._routes
HasRoutes(rs) == rs # <<>>

\* Method.GET, Method.POST, Method.PUT, Method.DELETE
BuilderMethod(fn) ==
  CASE fn = "get" -> <<"G", "E", "T">>
    [] fn = "post" -> <<"P", "O", "S", "T">>
    [] fn = "put" -> <<"P", "U", "T">>
    [] fn = "delete" -> <<"D", "E", "L", "E", "T", "E">>

BuilderCall(fn, path, data, headers, status) ==
  [fn |-> fn, path |-> path, data |-> data, headers |-> headers,
   status |-> status]

\* The calls of the builders: get(r'/a/.*', '{}', {'X-Id': '7'}),
\* post(r'/a', None, {'X-Id': '9'}, 201), put(r'/a'), delete(r'/a', 'hi'),
\* and two that fail validation, put(' ') and delete(r'/a', 1).  put has no
\* data parameter.
BuilderCalls ==
  {BuilderCall("get", StrV(PatAAny), StrV(TextJson),
               DictV(<<Hdr("X-Id", "7", 0)>>), IntV(200)),
   BuilderCall("post", StrV(PatA), NoneV, DictV(<<Hdr("X-Id", "9", 0)>>),
               IntV(201)),
   BuilderCall("put", StrV(PatA), NoneV, NoneV, IntV(200)),
   BuilderCall("delete", StrV(PatA), StrV(TextHi), NoneV, IntV(200)),
   BuilderCall("put", StrV(<<Lit(" ")>>), NoneV, NoneV, IntV(200)),
   BuilderCall("delete", StrV(PatA), IntV(1), NoneV, IntV(200))}

\* Route(Method.X, path, data, headers, status) as the builder calls it;
\* put passes None for the data.  The texts given name no file.
BuiltBy(c) ==
  Route(StrV(BuilderMethod(c.fn)), c.path,
        IF c.fn = "put" THEN NoneV ELSE c.data, c.headers, c.status, NoFiles)

\* A builder that puts the new route in front of the list.
AddRouteInFront(c) ==
  /\ cpc = "idle"
  /\ Len(routes) < MaxRoutes \/ BuiltBy(c).err # "none"
  /\ LET r == BuiltBy(c) IN
       /\ routes' = IF r.err = "none" THEN <<r.obj>> \o routes ELSE routes
       /\ err' = r.err
  /\ op' = c.fn
  /\ cpc' = "ret"
  /\ UNCHANGED <<ctor, config, server, servers, extBusy, attempts, nbind,
                 lastBind, backoffs, callLog, exitKind, note>>

\* get/post/put/delete: self._routes.append(Route(...)).  The Route is
\* constructed first: when its validation raises, nothing is appended.
AddRoute(c) ==
  /\ cpc = "idle"
  /\ Len(routes) < MaxRoutes \/ BuiltBy(c).err # "none"
  /\ LET r == BuiltBy(c) IN
       /\ routes' = IF r.err = "none" THEN Append(routes, r.obj) ELSE routes
       /\ err' = r.err
  /\ op' = c.fn
  /\ cpc' = "ret"
  /\ UNCHANGED <<ctor, config, server, servers, extBusy, attempts, nbind,
                 lastBind, backoffs, callLog, exitKind, note>>

\* start(): with routes, go on to _create(attempts=3); without, raise
StartCall(how) ==
  /\ cpc = "idle"
  /\ Len(servers) < MaxServers
  /\ op' = how
  /\ IF HasRoutes(routes)
     THEN /\ cpc' = "create"
          /\ attempts' = Attempts
          /\ err' = "none"
     ELSE /\ cpc' = "ret"
          /\ attempts' = attempts
          /\ err' = "ValueError"
  /\ UNCHANGED <<ctor, routes, config, server, servers, extBusy, nbind, lastBind,
                 backoffs, callLog, exitKind, note>>

\* srv.start()
Start == StartCall("start")
\* __enter__: self.start().  It is run by "with srv:", and by every call of
\* a function that srv decorates (__call__'s wrapper is "with self:
\* return obj(*args, **kwargs)").
Enter == StartCall("with")

\* What the operating system and the TLS layer can answer to one
\* HTTPServer(...) / wrap_socket(...) of _create: the address is in use
\* (EADDRINUSE), another OSError (e.g. EACCES), success, or, when secure, a
\* bound socket whose TLS wrapping fails.
BindOutcomes(p, sec) ==
  IF PortBusy(p) THEN {"inuse", "other"}
  ELSE {"ok", "other"} \cup (IF sec THEN {"tlsfail"} ELSE {})

\* an except clause that retries on any OSError
RetryableAny(outcome) == outcome \in {"inuse", "other"}

\* except OSError as e: if e.errno == EADDRINUSE
Retryable(outcome) == outcome = "inuse"

\* a loop test that lets one more pass through
LoopAgainOnceMore(a) == a >= -1

\* while attempts >= 0
LoopAgain(a) == a >= 0

\* a start() that keeps the server it already has
StartedKeepsOld(cur, new) == IF cur # 0 THEN cur ELSE new

\* self._server = self._create(attempts=3)
Started(cur, new) == new

\* Where start() goes once the server runs: into the enclosed unit of work
\* when it was called by __enter__, back to the caller otherwise.
AfterStart(how) == IF how = "start" THEN "ret" ELSE "body"

\* One pass of the body of _create's loop.  On success start() goes on:
\* self._server = ..., the log line, the worker thread.
Create(outcome) ==
  /\ cpc = "create"
  /\ outcome \in BindOutcomes(port, secure)
  /\ nbind' = nbind + 1
  /\ lastBind' = outcome
  /\ IF outcome = "ok"
     THEN /\ servers' = Append(servers, NewServer(port, TRUE))
          /\ server' = Started(server, Len(servers) + 1)
          /\ callLog' = callLog \o LogLines(trace, <<"running">>)
          /\ cpc' = AfterStart(op)
          /\ err' = "none"
     ELSE IF outcome = "tlsfail"
     THEN /\ servers' = Append(servers, NewServer(port, FALSE))
          /\ server' = server
          /\ callLog' = callLog
          /\ cpc' = "ret"
          /\ err' = "SSLError"
     ELSE IF Retryable(outcome)
     THEN /\ cpc' = "backoff"
          /\ UNCHANGED <<servers, server, callLog, err>>
     ELSE /\ cpc' = "ret"
          /\ err' = "OSError"
          /\ UNCHANGED <<servers, server, callLog>>
  /\ UNCHANGED <<ctor, routes, config, extBusy, op, attempts, backoffs, exitKind,
                 note>>

\* sleep(0.5); attempts -= 1; then the loop test, and after the loop
\* raise OSError('Port is already busy or operation not permitted')
Backoff ==
  /\ cpc = "backoff"
  /\ backoffs' = backoffs + 1
  /\ attempts' = attempts - 1
  /\ IF LoopAgain(attempts - 1)
     THEN cpc' = "create" /\ err' = err
     ELSE cpc' = "ret" /\ err' = "PortBusy"
  /\ UNCHANGED <<ctor, routes, config, server, servers, extBusy, op, nbind,
                 lastBind, callLog, exitKind, note>>

\* The enclosed unit of work ends: by falling off its end, by an early
\* return, or by raising.
BodyEnd(kind) ==
  /\ cpc = "body"
  /\ kind \in {"normal", "return", "raise"}
  /\ cpc' = "exit"
  /\ exitKind' = kind
  /\ UNCHANGED <<ctor, routes, config, server, servers, extBusy, op, attempts,
                 nbind, lastBind, backoffs, err, callLog, note>>

\* __exit__, run by the with statement on every way out of the block
Exit ==
  /\ cpc = "exit"
  /\ LET r == ExitCall(servers, server, trace, exitKind) IN
       /\ servers' = r.servers
       /\ callLog' = callLog \o r.lines
       /\ err' = IF r.err # "none" THEN r.err
                 ELSE IF exitKind = "raise" THEN "BodyError" ELSE "none"
  /\ cpc' = "ret"
  /\ UNCHANGED <<ctor, routes, config, server, extBusy, op, attempts, nbind,
                 lastBind, backoffs, exitKind, note>>

\* srv.stop()
Stop ==
  /\ cpc = "idle"
  /\ LET r == StopCall(servers, server, trace) IN
       /\ servers' = r.servers
       /\ callLog' = r.lines
       /\ err' = r.err
  /\ note' = IF server = 0 THEN "never" ELSE servers[server].sock
  /\ op' = "stop"
  /\ cpc' = "ret"
  /\ UNCHANGED <<ctor, routes, config, server, extBusy, attempts, nbind, lastBind,
                 backoffs, exitKind>>

\* The call is over (returned or raised): the caller thread is free again.
Return ==
  /\ cpc = "ret"
  /\ cpc' = "idle"
  /\ op' = "none"
  /\ attempts' = 0
  /\ nbind' = 0
  /\ lastBind' = "none"
  /\ backoffs' = 0
  /\ err' = "none"
  /\ callLog' = <<>>
  /\ exitKind' = "none"
  /\ note' = "none"
  /\ UNCHANGED <<ctor, routes, config, server, servers, extBusy>>

(* ------------------------- the worker threads -------------------------- *)
\* serve_forever, the wait: while not shutdown_request, select on the
\* socket.  It returns when a connection waits, and at once on a closed
\* socket.  Nothing in stub.py calls shutdown().
ServeForever(i) ==
  /\ i \in DOMAIN servers
  /\ servers[i].thread
  /\ servers[i].wpc = "poll"
  /\ IF servers[i].shutdown
     THEN servers' = [servers EXCEPT ![i].wpc = "terminated"]
     ELSE IF servers[i].sock = "closed" \/ servers[i].backlog # <<>>
     THEN servers' = [servers EXCEPT ![i].wpc = "accept"]
     ELSE servers' = servers
  /\ UNCHANGED <<ctor, routes, config, server, extBusy, cpc, op, callerLocals>>

\* Handler.proceed up to the sleep, on request q, in a Service whose trace
\* option is tr: resolve; unmatched, the 404 and return; matched, the status
\* line, the headers, their end, then sleep(delay), which raises ValueError
\* at once for a negative delay.
ProceedTraced(tr, s, q) ==
  LET m == Resolve(routes, q.method, q.path) IN
    IF m = 0
    THEN [s EXCEPT !.req = q, !.route = 0, !.out = NotFoundOut,
                   !.logs = LogLines(tr, <<"Not found">>),
                   !.wpc = "done"]
    ELSE [s EXCEPT !.req = q, !.route = m, !.out = HeadOut(routes[m]),
                   !.remaining = IF delay < 0 THEN 0 ELSE delay,
                   !.elapsed = 0,
                   !.wpc = IF delay < 0 THEN "error" ELSE "sleep"]

\* server.log reads the trace option of the Service the handler belongs to
Proceed(s, q) == ProceedTraced(trace, s, q)

\* A handler that serves a body once: the matched route loses its data.
HandleRequestConsuming(i) ==
  /\ i \in DOMAIN servers
  /\ servers[i].wpc = "accept"
  /\ IF servers[i].sock = "closed" \/ servers[i].backlog = <<>>
     THEN servers' = [servers EXCEPT ![i].wpc = "poll"] /\ routes' = routes
     ELSE LET q == Head(servers[i].backlog)
              m == Resolve(routes, q.method, q.path)
          IN /\ servers' = [servers EXCEPT ![i] =
                   Proceed([servers[i] EXCEPT !.backlog = Tail(@)], q)]
             /\ routes' = IF m = 0 THEN routes
                          ELSE [routes EXCEPT ![m].data = <<>>]
  /\ UNCHANGED <<ctor, config, server, extBusy, cpc, op, callerLocals>>

\* _handle_request_noblock: accept() fails on a closed socket (the OSError
\* is swallowed and the loop goes on); otherwise the connection is taken
\* and the handler runs on this thread.
HandleRequest(i) ==
  /\ i \in DOMAIN servers
  /\ servers[i].wpc = "accept"
  /\ IF servers[i].sock = "closed" \/ servers[i].backlog = <<>>
     THEN servers' = [servers EXCEPT ![i].wpc = "poll"]
     ELSE servers' = [servers EXCEPT ![i] =
            Proceed([servers[i] EXCEPT !.backlog = Tail(@)],
                    Head(servers[i].backlog))]
  /\ UNCHANGED <<ctor, routes, config, server, extBusy, cpc, op, callerLocals>>

\* A handler that builds its diagnostic record only when tracing.
RespondIfTraced(tr, s, r, hk) ==
  LET raises == tr /\ PrintInfoRaises(s.req.method, hk) IN
    [s EXCEPT !.out = s.out \o TailOut(r, s.elapsed),
              !.logs = IF raises THEN <<>> ELSE LogLines(tr, <<"info">>),
              !.wpc = IF raises THEN "error" ELSE "done"]

\* Handler.proceed from the end of the sleep, for route r and a request
\* whose header section is of kind hk: the body, then print_info, which
\* builds its record whatever the trace option is (and raises on a request
\* without headers or with a bad Content-Length) and hands it to server.log.
Respond(tr, s, r, hk) ==
  LET raises == PrintInfoRaises(s.req.method, hk) IN
    [s EXCEPT !.out = s.out \o TailOut(r, s.elapsed),
              !.logs = IF raises THEN <<>> ELSE LogLines(tr, <<"info">>),
              !.wpc = IF raises THEN "error" ELSE "done"]

\* The sleep of proceed() is over: the rest of the handler runs, up to
\* self.request.close().
Wake(i, hk) ==
  /\ i \in DOMAIN servers
  /\ hk \in RequestHeaderKinds
  /\ servers[i].wpc = "sleep"
  /\ Awake(servers[i])
  /\ servers' = [servers EXCEPT ![i] =
       Respond(trace, servers[i], routes[servers[i].route], hk)]
  /\ UNCHANGED <<ctor, routes, config, server, extBusy, cpc, op, callerLocals>>

\* The handler is over (it returned, or handle_error reported what it
\* raised): the connection is shut down and the worker polls again.
Finish(i) ==
  /\ i \in DOMAIN servers
  /\ servers[i].wpc \in {"done", "error"}
  /\ servers' = [servers EXCEPT ![i] =
       [servers[i] EXCEPT !.wpc = "poll", !.req = NoReq, !.route = 0,
                          !.out = <<>>, !.logs = <<>>, !.remaining = 0,
                          !.elapsed = 0]]
  /\ UNCHANGED <<ctor, routes, config, server, extBusy, cpc, op, callerLocals>>

(* --------------------------- the environment --------------------------- *)
\* One second passes for every worker that sleeps.
Tick ==
  /\ \E i \in DOMAIN servers : servers[i].wpc = "sleep" /\ servers[i].remaining > 0
  /\ servers' = [i \in DOMAIN servers |->
       IF servers[i].wpc = "sleep" /\ servers[i].remaining > 0
       THEN [servers[i] EXCEPT !.remaining = @ - 1, !.elapsed = @ + 1]
       ELSE servers[i]]
  /\ UNCHANGED <<ctor, routes, config, server, extBusy, cpc, op, callerLocals>>

\* A client connects to a listening socket and sends a request.
Connect(i, q) ==
  /\ i \in DOMAIN servers
  /\ q \in Requests
  /\ servers[i].sock = "open"
  /\ Len(servers[i].backlog) < MaxPending
  /\ servers' = [servers EXCEPT ![i].backlog =
                   Append(@, q)]
  /\ UNCHANGED <<ctor, routes, config, server, extBusy, cpc, op, callerLocals>>

\* Another process binds the port, or lets go of it.
ExtBind ==
  /\ ~PortBusy(port)
  /\ extBusy' = TRUE
  /\ UNCHANGED <<ctor, routes, config, server, servers, cpc, op, callerLocals>>

ExtRelease ==
  /\ extBusy
  /\ extBusy' = FALSE
  /\ UNCHANGED <<ctor, routes, config, server, servers, cpc, op, callerLocals>>

\* The HTTPServer whose TLS wrapping failed is referenced by nothing once
\* the exception is gone: the collector closes its socket.
Collect(i) ==
  /\ i \in DOMAIN servers
  /\ ~servers[i].thread
  /\ servers[i].sock = "open"
  /\ servers' = CloseSocket(servers, i)
  /\ UNCHANGED <<ctor, routes, config, server, extBusy, cpc, op, callerLocals>>

(* ---------------------------- specification ---------------------------- *)
ServerIds == 1..MaxServers

Worker ==
  \E i \in ServerIds :
    \/ ServeForever(i)
    \/ HandleRequest(i)
    \/ \E hk \in RequestHeaderKinds : Wake(i, hk)
    \/ Finish(i)

Next ==
  \/ \E c \in BuilderCalls : AddRoute(c)
  \/ Start
  \/ Enter
  \/ \E outcome \in {"ok", "inuse", "other", "tlsfail"} : Create(outcome)
  \/ Backoff
  \/ \E kind \in {"normal", "return", "raise"} : BodyEnd(kind)
  \/ Exit
  \/ Stop
  \/ Return
  \/ \E i \in ServerIds : ServeForever(i)
  \/ \E i \in ServerIds : HandleRequest(i)
  \/ \E i \in ServerIds, hk \in RequestHeaderKinds : Wake(i, hk)
  \/ \E i \in ServerIds : Finish(i)
  \/ Tick
  \/ \E i \in ServerIds, q \in Requests : Connect(i, q)
  \/ ExtBind
  \/ ExtRelease
  \/ \E i \in ServerIds : Collect(i)

Spec == Init /\ [][Next]_vars

\* The threads are scheduled and the clock runs.
LiveSpec == Spec /\ WF_vars(Worker) /\ WF_vars(Tick)

(* --------------------------- port assignment --------------------------- *)
\* the ports a Service is given
Ports == {DefaultPort, 8082}

\* srv.port = p between two calls: __set_port stores int(p); the server
\* that runs keeps the address it was bound to
SetPort(p) ==
  /\ cpc = "idle"
  /\ port' = p
  /\ UNCHANGED <<ctor, routes, trace, delay, secure, server, servers, extBusy,
                 cpc, op, callerLocals>>

PortNext == Next \/ \E p \in Ports : SetPort(p)

\* A Service constructed with two routes, delay=1 and secure=True (key and
\* crt there).
PortInit == Init /\ routes # <<>> /\ ~trace /\ delay = 1 /\ secure

\* The Service with its port assignable between calls.
PortSpec == PortInit /\ [][PortNext]_vars

(* ------------------------- constructor calls --------------------------- *)
\* The state of a run that makes one constructor call and nothing else.
CtorInit ==
  /\ args \in RouteCalls \cup ParseCalls \cup ServiceCalls \cup CastCalls
  /\ made = NotMade
  /\ routes = <<>>
  /\ port = DefaultPort
  /\ trace = FALSE
  /\ delay = 0
  /\ secure = FALSE
  /\ server = 0
  /\ servers = <<>>
  /\ extBusy = FALSE
  /\ cpc = "idle"
  /\ op = "none"
  /\ attempts = 0
  /\ nbind = 0
  /\ lastBind = "none"
  /\ backoffs = 0
  /\ err = "none"
  /\ callLog = <<>>
  /\ exitKind = "none"
  /\ note = "none"

system == <<routes, config, server, servers, extBusy, cpc, op, callerLocals>>

\* Route(method, path, data, headers, status)
NewRoute ==
  /\ args.fn = "Route"
  /\ made = NotMade
  /\ made' = Route(args.method, args.path, args.data, args.headers,
                   args.status, args.fs)
  /\ UNCHANGED <<args, system>>

\* parse_response(obj)
ParseResponse ==
  /\ args.fn = "parse_response"
  /\ made = NotMade
  /\ LET p == parse_response(args.obj, args.fs) IN
       made' = IF p.err # "none" THEN Failed(p.err, "obj") ELSE Built(p)
  /\ UNCHANGED <<args, system>>

\* Service(routes, port, trace=, delay=, crt=, key=, secure=)
NewService ==
  /\ args.fn = "Service"
  /\ made = NotMade
  /\ made' = Service(args.routes, args.port, args.trace, args.delay,
                     args.crt, args.key, args.secure, args.fs)
  /\ UNCHANGED <<args, system>>

\* Route.cast(route)
CastRoute ==
  /\ args.fn = "cast"
  /\ made = NotMade
  /\ made' = Cast(args.route, args.fs)
  /\ UNCHANGED <<args, system>>

CtorNext == NewRoute \/ ParseResponse \/ NewService \/ CastRoute

CtorSpec == CtorInit /\ [][CtorNext]_vars

(* ---------------------- configuration assignments ---------------------- *)
\* a path that names no file
GonePath == <<"/", "g">>

\* The constructions whose options are then assigned: one route, the
\* default port, and every combination of crt, key and secure.
ConfigCalls ==
  {c \in ServiceCalls :
     /\ c.routes = ListV(<<StrV(<<"G", "E", "T">>), StrV(PatAEnd)>>)
     /\ c.port = IntV(DefaultPort)
     /\ c.trace = BoolV(FALSE)
     /\ c.delay = IntV(0)}

\* the values assigned to the properties port, trace, delay, key, crt, secure
AssignArgs(name) ==
  CASE name = "port" -> {IntV(DefaultPort), IntV(8082), NoneV}
    [] name = "trace" -> {BoolV(FALSE), BoolV(TRUE)}
    [] name = "delay" -> {IntV(0), IntV(1), NoneV}
    [] name = "key" -> {StrV(KeyPath), StrV(GonePath), StrV(<<>>), NoneV}
    [] name = "crt" -> {StrV(CrtPath), StrV(GonePath), StrV(<<>>), NoneV}
    [] name = "secure" -> {BoolV(FALSE), BoolV(TRUE)}
OptionNames == {"port", "trace", "delay", "key", "crt", "secure"}

\* __set_port, __set_trace, __set_delay, __set_key, __set_crt, __set_secure
\* on the Service obj: the exception raised, or the value stored.  The
\* setters of port and delay raise TypeError for ValueError too; __set_secure
\* reads the key and the crt the Service has now.
Setter(name, x, obj, fs) ==
  CASE name = "port" ->
         IF IntOf(x).err # "none" THEN Raised("TypeError") ELSE IntOf(x)
    [] name = "trace" -> Stored(Truthy(x))
    [] name = "delay" ->
         IF FloatOf(x).err # "none" THEN Raised("TypeError") ELSE FloatOf(x)
    [] name = "key" -> PathOption(x, fs)
    [] name = "crt" -> PathOption(x, fs)
    [] name = "secure" -> SecureOption(x, obj.key, obj.crt)

ConfigInit ==
  /\ args \in ConfigCalls
  /\ made = NotMade
  /\ routes = <<>>
  /\ port = DefaultPort
  /\ trace = FALSE
  /\ delay = 0
  /\ secure = FALSE
  /\ server = 0
  /\ servers = <<>>
  /\ extBusy = FALSE
  /\ cpc = "idle"
  /\ op = "none"
  /\ attempts = 0
  /\ nbind = 0
  /\ lastBind = "none"
  /\ backoffs = 0
  /\ err = "none"
  /\ callLog = <<>>
  /\ exitKind = "none"
  /\ note = "none"

\* srv.<name> = x on the constructed Service: the property's setter runs; it
\* stores the value, or raises and leaves the Service as it was.
Assign(name, x) ==
  /\ args.fn = "Service"
  /\ made # NotMade
  /\ made.err = "none"
  /\ x \in AssignArgs(name)
  /\ LET r == Setter(name, x, made.obj, args.fs) IN
       /\ err' = r.err
       /\ made' = IF r.err # "none" THEN made
                  ELSE Built([made.obj EXCEPT ![name] = r.val])
  /\ op' = name
  /\ UNCHANGED <<args, routes, config, server, servers, extBusy, cpc, attempts,
                 nbind, lastBind, backoffs, callLog, exitKind, note>>

ConfigNext ==
  \/ NewService
  \/ \E name \in OptionNames : \E x \in AssignArgs(name) : Assign(name, x)

ConfigSpec == ConfigInit /\ [][ConfigNext]_vars

(* ------------------------------ claims --------------------------------- *)
\* The servers that exist.
Live == DOMAIN servers

\* Matching from the start, stated on positions: the positions of s at
\* which a match of pat that began at position k can end.
RECURSIVE MatchEnds(_, _, _)
MatchEnds(pat, s, k) ==
  IF pat = <<>> THEN {k}
  ELSE LET a == Head(pat)
           run == {j \in k..Len(s) : \A x \in (k + 1)..j : AtomAccepts(a, s[x])}
       IN IF a.t = "end"
          THEN IF k = Len(s) THEN MatchEnds(Tail(pat), s, k) ELSE {}
          ELSE IF a.star
          THEN UNION {MatchEnds(Tail(pat), s, j) : j \in run}
          ELSE IF k + 1 \in run THEN MatchEnds(Tail(pat), s, k + 1) ELSE {}

\* Route r answers request q: same method, and the pattern matches a prefix
\* of the path.
Answers(r, q) == r.method = q.method /\ MatchEnds(r.path, q.path, 0) # {}

\* m is what the first-match rule gives for q on the route list rs.
FirstMatch(m, rs, q) ==
  IF \E k \in 1..Len(rs) : Answers(rs[k], q)
  THEN /\ m \in 1..Len(rs)
       /\ Answers(rs[m], q)
       /\ \A k \in 1..(m - 1) : ~Answers(rs[k], q)
  ELSE m = 0

GetAB == [method |-> "GET", path |-> <<"/", "a", "/", "b">>]

\* C1: resolve returns the first route, in insertion order, whose method is
\* the request's and whose pattern matches the path from its start; None
\* exactly when there is none; and on [(GET, "/a/$"), (GET, "/a/.*")] a GET
\* of /a/b gets the second route.
C1_ResolveFirstMatch ==
  /\ [][\A i \in ServerIds :
          (i \in Live /\ servers[i].wpc = "accept"
             /\ servers'[i].wpc \in {"sleep", "done", "error"})
          => FirstMatch(servers'[i].route, routes, servers'[i].req)]_vars
  /\ [](\A i \in Live :
          (routes = <<RouteGetAEnd, RouteGetAAny>> /\ servers[i].req = GetAB)
          => servers[i].route = 2)

C1_Witness ==
  \E i \in Live :
    /\ routes = <<RouteGetAEnd, RouteGetAAny>>
    /\ servers[i].req = GetAB
    /\ servers[i].wpc = "done"
    /\ servers[i].route = 2

\* What the handler itself wrote: the events without the standard headers
\* that send_response adds on its own.
OwnEvents(out) == SelectSeq(out, LAMBDA e : e.kind # "libheader")

IsPrefix(a, b) == Len(a) <= Len(b) /\ a = SubSeq(b, 1, Len(a))

\* The dispatch of route r as the claim orders it.
ExpectedHead(r) ==
  <<Ev("status", "", "", r.status, <<>>)>>
  \o [k \in 1..Len(r.headers) |->
        Ev("header", r.headers[k].name, r.headers[k].val, r.headers[k].num, <<>>)]
  \o <<Ev("end", "", "", 0, <<>>)>>

ExpectedDispatch(r, d) ==
  ExpectedHead(r) \o <<Ev("sleep", "", "", d, <<>>)>>
  \o (IF r.data # <<>> THEN <<Ev("body", "", "", 0, r.data)>> ELSE <<>>)

\* C2: a request that resolves to a route gets, in this order and no other,
\* the status line, the route's headers in stored order, the end of the
\* headers, the delay, and then the body if the route has one.  At every
\* moment what was written is a prefix of that sequence; while the worker
\* sleeps exactly the header section is out; a dispatch that returns has
\* written all of it; and with a delay that is a duration (not negative) a
\* dispatch that raises does so only after all of it.
C2_DispatchOrder ==
  \A i \in Live :
    LET s == servers[i]
        want == ExpectedDispatch(routes[s.route], delay)
    IN s.route # 0 =>
         /\ IsPrefix(OwnEvents(s.out), want)
         /\ s.wpc = "sleep" => OwnEvents(s.out) = ExpectedHead(routes[s.route])
         /\ s.wpc = "done" => OwnEvents(s.out) = want
         /\ (s.wpc = "error" /\ delay >= 0) => OwnEvents(s.out) = want

C2_Witness ==
  \E i \in Live :
    /\ servers[i].wpc = "done"
    /\ servers[i].route # 0
    /\ routes[servers[i].route].data # <<>>
    /\ delay = 1
    /\ servers[i].out[Len(servers[i].out)].kind = "body"

\* C3: an unmatched request gets status 404 with an empty body, and nothing
\* else of a dispatch: no route header, no delay, no exception; and a "Not
\* found" line is logged only when tracing.
C3_NotFoundEmptyBody ==
  \A i \in Live :
    LET s == servers[i] IN
      (s.req # NoReq /\ s.route = 0) =>
        /\ s.wpc = "done"
        /\ s.out[1] = Ev("status", "", "", 404, <<>>)
        /\ \A k \in 1..Len(s.out) : s.out[k].kind \notin {"header", "sleep", "body"}
        /\ s.logs # <<>> => trace

\* Server i is running: its listening socket is open and its worker serves.
Running(i) ==
  /\ i \in Live
  /\ servers[i].sock = "open"
  /\ servers[i].thread
  /\ servers[i].wpc \notin {"none", "terminated"}

\* C4: start() with an empty route list raises the configuration error
\* before any bind attempt: no socket, no worker, no server, not Running.
C4_EmptyRoutesNoBind ==
  routes = <<>> =>
    /\ servers = <<>>
    /\ server = 0
    /\ nbind = 0
    /\ cpc \in {"idle", "ret"}
    /\ op \in {"start", "with"} => (cpc = "ret" /\ err = "ValueError")

C4_Witness ==
  routes = <<>> /\ op = "start" /\ cpc = "ret" /\ err = "ValueError"

\* C5: one start() makes at most 4 bind attempts; it goes on only after an
\* address-in-use failure, so the first success ends it with the Service
\* Running; after 4 address-in-use failures it raises, with the server
\* reference and the servers as they were.
C5_FourAttempts ==
  /\ [](/\ nbind <= 4
        /\ cpc \in {"create", "backoff"} => lastBind \in {"none", "inuse"}
        /\ (lastBind = "ok" /\ exitKind = "none") => Running(server)
        /\ err = "PortBusy" => (nbind = 4 /\ lastBind = "inuse" /\ cpc = "ret"))
  /\ [][(err' = "PortBusy" /\ err # "PortBusy")
          => (server' = server /\ servers' = servers)]_vars

C5_Witness == err = "PortBusy" /\ nbind = 4 /\ cpc = "ret"

\* C6: a bind failure other than address-in-use ends start() on the attempt
\* where it happens: the call raises it, and every backoff and every other
\* attempt of the call came before it.
C6_OtherErrorPropagates ==
  /\ lastBind = "other" =>
       (cpc = "ret" /\ err = "OSError" /\ backoffs = nbind - 1
          /\ attempts = Attempts - backoffs)
  /\ cpc = "backoff" => lastBind = "inuse"

C6_Witness == lastBind = "other" /\ nbind = 3 /\ attempts = 1

\* C7: once the enclosed unit of work has ended, in any of the three ways,
\* and __exit__ is over, the Service's server is closed: there is no way out
\* of the block that leaves it running.
C7_ScopedStop ==
  /\ (exitKind # "none" /\ cpc # "exit") =>
       (cpc = "ret" /\ op = "with" /\ server # 0
          /\ servers[server].sock = "closed" /\ ~Running(server))
  /\ cpc = "exit" => exitKind \in {"normal", "return", "raise"}
  /\ cpc = "body" => Running(server)

C7_Witness ==
  /\ exitKind = "raise"
  /\ cpc = "ret"
  /\ server # 0
  /\ servers[server].sock = "closed"

\* C8: after stop() the listening socket is closed, no request is accepted
\* on it, a dispatch in flight goes on as it was, and the worker's serving
\* loop eventually terminates.
C8_StopEndsWorker ==
  /\ [](\A i \in Live : servers[i].sock = "closed" => servers[i].backlog = <<>>)
  /\ [][\A i \in ServerIds :
          (i \in Live /\ servers[i].sock = "closed" /\ servers[i].wpc = "accept")
          => servers'[i].wpc \in {"accept", "poll"}]_vars
  /\ [][\A i \in ServerIds :
          (i \in Live /\ servers[i].sock = "open" /\ servers'[i].sock = "closed")
          => (servers'[i].wpc = servers[i].wpc /\ servers'[i].out = servers[i].out
                /\ servers'[i].req = servers[i].req)]_vars
  /\ \A i \in ServerIds :
       (i \in Live /\ servers[i].thread /\ servers[i].sock = "closed")
         ~> (i \in Live /\ servers[i].wpc = "terminated")

\* C9: stop() on a Service that was never started, or is already stopped,
\* raises nothing and changes nothing of the Service: not the server
\* reference, not a socket, not the routes, not the options.
C9_StopIdempotent ==
  /\ [][(cpc = "idle" /\ op' = "stop"
           /\ (server = 0 \/ servers[server].sock = "closed"))
          => (err' = "none" /\ UNCHANGED <<routes, config, server, servers>>)]_vars
  /\ [](note \in {"never", "closed"} => (err = "none" /\ cpc = "ret"))

C9_Witness == note = "closed" /\ cpc = "ret" /\ op = "stop"

\* C10: a start() whose bind succeeds ends with the Service Running on its
\* port with its route list, whether it is the first start or one that
\* follows a stop(): the newest server is the current one and the only one
\* whose socket is open, and its worker serves.
C10_Restart ==
  (lastBind = "ok" /\ exitKind = "none") =>
    /\ cpc \in {"ret", "body"}
    /\ server = Len(servers)
    /\ Running(server)
    /\ servers[server].port = port
    /\ routes # <<>>
    /\ \A i \in 1..(server - 1) : servers[i].sock = "closed"

C10_Witness ==
  /\ Len(servers) >= 2
  /\ servers[1].thread
  /\ servers[1].sock = "closed"
  /\ server = Len(servers)
  /\ lastBind = "ok"
  /\ cpc = "body"
  /\ servers[server].wpc = "done"
  /\ servers[server].route # 0

\* Server i is in a dispatch: its handler has taken a request and has not
\* yet given the connection back.
Dispatching(i) == i \in Live /\ servers[i].req # NoReq

\* C11: whatever the interleaving of connections with start() and stop(),
\* at most one request of the Service is in dispatch at any time: a dispatch
\* (its delay included) is over before the next one begins.
C11_OneDispatchAtATime ==
  \A i, j \in ServerIds : (Dispatching(i) /\ Dispatching(j)) => i = j

\* A server record without its log records.
Untraced(s) == [s EXCEPT !.logs = <<>>]

\* C12: tracing is observational.  From the same state and on the same
\* request, the handler of a Service with trace on and the handler of one
\* with trace off write the same events, block the same way and end the same
\* way, at the first half of the dispatch and at the second; they differ in
\* log records only, and a log record exists only when tracing.
C12_TraceObservational ==
  /\ \A i \in Live :
       LET s == servers[i] IN
         /\ s.wpc = "accept" =>
              \A q \in Requests :
                /\ Untraced(ProceedTraced(TRUE, s, q))
                     = Untraced(ProceedTraced(FALSE, s, q))
                /\ ProceedTraced(FALSE, s, q).logs = <<>>
         /\ (s.wpc = "sleep" /\ s.route # 0) =>
              \A hk \in RequestHeaderKinds :
                /\ Untraced(Respond(TRUE, s, routes[s.route], hk))
                     = Untraced(Respond(FALSE, s, routes[s.route], hk))
                /\ Respond(FALSE, s, routes[s.route], hk).logs = <<>>
         /\ s.logs # <<>> => trace
  /\ callLog # <<>> => trace

C12_Witness ==
  \E i \in Live :
    /\ trace
    /\ servers[i].wpc = "done"
    /\ servers[i].route # 0
    /\ servers[i].logs = <<"info">>
    /\ servers[i].out[Len(servers[i].out)].kind = "body"

\* C13: every dispatch of a GET, POST, PUT or DELETE request ends either
\* with the complete response of the matched route or with a 404: the
\* handler never raises, and never stops short of the response.
C13_DispatchEndsWell ==
  \A i \in Live :
    LET s == servers[i] IN
      (s.req # NoReq /\ s.req.method \in {"GET", "POST", "PUT", "DELETE"}) =>
        /\ s.wpc # "error"
        /\ s.wpc = "done" =>
             IF s.route = 0
             THEN s.out[1] = Ev("status", "", "", 404, <<>>)
             ELSE OwnEvents(s.out) = ExpectedDispatch(routes[s.route], delay)

\* What a server that never served a request answers to q, up to the sleep.
FreshAnswer(q) == Proceed(NewServer(port, TRUE), q)

Called(fn) == args.fn = fn /\ made # NotMade

NamesOf(hs) == {hs[k].name : k \in 1..Len(hs)}
HeadersOf(hs) == {hs[k] : k \in 1..Len(hs)}

\* The same Route call with no headers given.
WithoutHeaders ==
  Route(args.method, args.path, args.data, NoneV, args.status, args.fs)

\* C14: when a Route is constructed with a header mapping, its stored
\* headers are the ones inserted for the payload (Content-type and
\* Content-length, as stored when no headers are given) overwritten by the
\* caller's: every caller header is stored as given, an inserted header is
\* stored unless the caller gave its key, each key is stored once and
\* nothing else is; and the body is the one stored when no headers are
\* given.
C14_CallerHeadersWin ==
  (Called("Route") /\ made.err = "none" /\ args.headers.t = "dict") =>
    LET stored == made.obj.headers
        auto == WithoutHeaders.obj.headers
        given == args.headers.v
    IN /\ WithoutHeaders.err = "none"
       /\ NamesOf(auto) \subseteq {"Content-type", "Content-length"}
       /\ made.obj.data # <<>> => NamesOf(auto) = {"Content-type", "Content-length"}
       /\ HeadersOf(given) \subseteq HeadersOf(stored)
       /\ \A h \in HeadersOf(auto) :
            h.name \notin NamesOf(given) => h \in HeadersOf(stored)
       /\ NamesOf(stored) = NamesOf(auto) \cup NamesOf(given)
       /\ Cardinality(NamesOf(stored)) = Len(stored)
       /\ made.obj.data = WithoutHeaders.obj.data

C14_Witness ==
  /\ Called("Route")
  /\ made.err = "none"
  /\ args.data = StrV(TextHi)
  /\ Hdr("Content-type", "text/plain", 0) \in HeadersOf(WithoutHeaders.obj.headers)
  /\ args.headers = DictV(<<Hdr("Content-type", "text/html", 0)>>)
  /\ made.obj.headers
       = <<Hdr("Content-type", "text/html", 0), Hdr("Content-length", "", 2)>>
  /\ made.obj.data = <<104, 105>>

\* the value stored under Content-length
ContentLength(hs) ==
  (CHOOSE h \in HeadersOf(hs) : h.name = "Content-length").num

\* C15, as stated: every constructed Route that has a body stores a
\* Content-length equal to the number of bytes of the body.
C15_LengthAlwaysExact ==
  (Called("Route") /\ made.err = "none" /\ made.obj.data # <<>>) =>
    /\ "Content-length" \in NamesOf(made.obj.headers)
    /\ ContentLength(made.obj.headers) = Len(made.obj.data)

\* the caller's headers have a Content-length of their own
CallerGivesLength ==
  Truthy(args.headers) /\ "Content-length" \in NamesOf(args.headers.v)

\* C15, amended: every constructed Route that has a body stores a
\* Content-length; it equals the number of bytes of the body unless the
\* caller's headers give a Content-length, and then it is the caller's.
C15_LengthExactUnlessGiven ==
  (Called("Route") /\ made.err = "none" /\ made.obj.data # <<>>) =>
    /\ "Content-length" \in NamesOf(made.obj.headers)
    /\ ContentLength(made.obj.headers)
         = IF CallerGivesLength THEN ContentLength(args.headers.v)
           ELSE Len(made.obj.data)

C15_Witness ==
  /\ Called("Route")
  /\ made.err = "none"
  /\ args.data = StrV(TextAccent)
  /\ ~CallerGivesLength
  /\ Len(made.obj.data) = 3
  /\ ContentLength(made.obj.headers) = 3

\* the option names a file that is there
GivenAndThere(x) == x.t = "str" /\ x.v # <<>> /\ IsFile(args.fs, x.v)

\* C16: a Service construction with secure on fails unless key and crt are
\* both given and both exist; when it gets as far as the secure option with
\* one of them absent or not there it raises the configuration error
\* (ValueError); and a Service with secure on has its key and its crt.
C16_SecureNeedsKeyAndCrt ==
  (Called("Service") /\ Truthy(args.secure)) =>
    /\ ~(GivenAndThere(args.key) /\ GivenAndThere(args.crt)) =>
         /\ made.err # "none"
         /\ made.at \notin {"routes", "route", "method", "path", "data",
                             "headers", "status", "port", "delay", "crt", "key"}
              => (made.err = "ValueError" /\ made.at = "secure")
    /\ made.err = "none" =>
         /\ Truthy(made.obj.secure)
         /\ made.obj.key = args.key
         /\ made.obj.crt = args.crt

C16_Witness ==
  /\ Called("Service")
  /\ Truthy(args.secure)
  /\ GivenAndThere(args.key)
  /\ args.crt = StrV(CrtPath)
  /\ ~IsFile(args.fs, CrtPath)
  /\ made.err = "ValueError"
  /\ made.at = "secure"

\* C17: parse_response gives, for a mapping, application/json; for a text
\* that is the path of a readable file, the bytes of the file with the type
\* of its extension (text/plain when the table has none), unsniffed; for any
\* other text, the UTF-8 bytes of the text with the first type that holds of
\* JSON, HTML, XML, and text/plain when none does.
C17_NegotiationPrecedence ==
  Called("parse_response") =>
    LET obj == args.obj IN
      IF obj.t = "dict"
      THEN made.err = "none" /\ made.obj.ctype = "application/json"
      ELSE IF obj.t = "str" /\ IsFile(args.fs, obj.v)
      THEN /\ made.err = "none"
           /\ made.obj.data = FileBytes(args.fs, obj.v)
           /\ made.obj.ctype = CTypeOf(Suffix(obj.v))
      ELSE IF obj.t = "str"
      THEN /\ made.err = "none"
           /\ made.obj.data = Encode(obj.v)
           /\ made.obj.ctype =
                (IF IsJson(obj.v) THEN "application/json"
                 ELSE IF IsHtml(obj.v) THEN "text/html"
                 ELSE IF IsXml(obj.v) THEN "application/xml"
                 ELSE "text/plain")
      ELSE TRUE

\* C18: a Route construction that is given a payload which is neither a
\* mapping nor a text raises a type error for it, whatever the value: no
\* Route comes of it.
C18_PayloadTypeError ==
  (Called("Route") /\ args.data.t \notin {"none", "dict", "str"}
     /\ made.at \notin {"method", "path"})
    => (made.err = "TypeError" /\ made.at = "data")

\* the letters of a text in upper case, letter by letter (A-Z only)
LetterUp(c) ==
  CASE c = "a" -> "A" [] c = "c" -> "C" [] c = "d" -> "D" [] c = "e" -> "E"
    [] c = "g" -> "G" [] c = "h" -> "H" [] c = "l" -> "L" [] c = "o" -> "O"
    [] c = "p" -> "P" [] c = "s" -> "S" [] c = "t" -> "T" [] c = "u" -> "U"
    [] OTHER -> c
MethodNames ==
  {<<"G", "E", "T">>, <<"P", "O", "S", "T">>, <<"P", "U", "T">>,
   <<"D", "E", "L", "E", "T", "E">>}
InAnyCasing(cs) == [k \in 1..Len(cs) |-> LetterUp(cs[k])]

\* C20: a method text that is GET, POST, PUT or DELETE in some letter
\* casing is accepted and stored in upper case; any other text raises a
\* value error; what is no text raises a type error.
C20_MethodNormalised ==
  Called("Route") =>
    IF args.method.t = "str"
    THEN IF InAnyCasing(args.method.v) \in MethodNames
         THEN /\ made.at # "method"
              /\ made.err = "none" =>
                   made.obj.method = Join(InAnyCasing(args.method.v))
         ELSE made.err = "ValueError" /\ made.at = "method"
    ELSE made.err = "TypeError" /\ made.at = "method"

\* C21: Route.cast raises a value error for every list or tuple of no or
\* one element, a type error for every argument that is no list or tuple, and
\* for a list or tuple of two to five elements comes to what Route comes to on
\* (method, path, payload, headers, status), with payload None, headers None
\* and status 200 for the ones left out.
C21_CastContract ==
  Called("cast") =>
    LET r == args.route
        n == Len(r.v)
    IN IF r.t # "list" THEN made.err = "TypeError" /\ made.at = "route"
       ELSE IF n < 2 THEN made.err = "ValueError" /\ made.at = "route"
       ELSE n <= 5 =>
              made = Route(r.v[1], r.v[2],
                           IF n >= 3 THEN r.v[3] ELSE NoneV,
                           IF n >= 4 THEN r.v[4] ELSE NoneV,
                           IF n >= 5 THEN r.v[5] ELSE IntV(200),
                           args.fs)

\* C22: in every state reached by constructing a Service and then assigning
\* port, trace, delay, key, crt and secure, in any order and any number of
\* times, a Service with secure on has a key and a crt that are paths found
\* to exist.
C22_SecureHasKeyAndCrt ==
  (Called("Service") /\ made.err = "none" /\ Truthy(made.obj.secure)) =>
    /\ GivenAndThere(made.obj.key)
    /\ GivenAndThere(made.obj.crt)

\* C23: for any sequence of start(), stop() and port assignments, once
\* stop() has returned no listening socket that a successful start() of the
\* Service opened is still open.
C23_StopClosesEverySocket ==
  (op = "stop" /\ cpc = "ret") =>
    \A i \in Live : servers[i].thread => servers[i].sock = "closed"

\* A step of the caller thread inside start(): the call itself, one bind
\* attempt, or one backoff.
StartStep ==
  /\ op' \in {"start", "with"}
  /\ cpc \in {"idle", "create", "backoff"}
  /\ cpc' # cpc \/ nbind' # nbind \/ backoffs' # backoffs

\* C24: a start() that fails (no routes, a bind error that is not address
\* in use, four attempts that found the address in use, or a TLS wrapping
\* that failed on the bound socket) leaves the Service as it was: no step of
\* the call other than a bind that succeeds changes the server reference or
\* an existing server, starts a worker thread, or leaves a listening socket
\* that it opened open.
C24_FailedStartChangesNothing ==
  [][(StartStep /\ lastBind' # "ok") =>
       /\ server' = server
       /\ \A i \in DOMAIN servers : i \in DOMAIN servers' /\ servers'[i] = servers[i]
       /\ \A i \in DOMAIN servers' \ DOMAIN servers :
            ~servers'[i].thread /\ servers'[i].sock = "closed"]_vars

Builders == {"get", "post", "put", "delete"}

\* the method a builder is named after
NamedMethod(fn) ==
  CASE fn = "get" -> "GET" [] fn = "post" -> "POST" [] fn = "put" -> "PUT"
    [] fn = "delete" -> "DELETE"

\* the caller thread makes a builder call
BuilderStep == cpc = "idle" /\ op' \in Builders

\* C25: the route list is append-only.  A builder call that succeeds makes
\* the list one route longer, the new route last and of the builder's
\* method, the routes that were there unchanged and in their order; a
\* builder call that fails validation leaves the list as it was; and no
\* other step of the Service changes the list at all, so no route is ever
\* removed or moved.
C25_RoutesAppendOnly ==
  /\ [][BuilderStep =>
         IF err' = "none"
         THEN /\ Len(routes') = Len(routes) + 1
              /\ SubSeq(routes', 1, Len(routes)) = routes
              /\ routes'[Len(routes')].method = NamedMethod(op')
         ELSE routes' = routes]_vars
  /\ [][~BuilderStep => routes' = routes]_vars
  /\ [][IsPrefix(routes, routes')]_vars

\* post() has returned, having appended its POST route behind a route that
\* was there
C25_Witness ==
  /\ cpc = "ret"
  /\ op = "post"
  /\ err = "none"
  /\ Len(routes) = 2
  /\ routes[1] = RouteGetAAny
  /\ routes[2].method = "POST"

====
